---- MODULE Spec2Model ----
(***************************************************************************)
(* Model of the Financial-Agentic-AI scripts:                              *)
(*   - find_ticker_in_response, display_stock_chart and main of            *)
(*     updated_fin_agents.py (the Streamlit chat application);             *)
(*   - main of finance_agents.py (the application's first version);        *)
(*   - get_installed_package_versions of check_versions.py.                *)
(* A text is a sequence of one-character strings.                          *)
(***************************************************************************)
EXTENDS Integers, Sequences, FiniteSets, TLC

(***************************************************************************)
(* Bounds of the model.                                                    *)
(***************************************************************************)
\* The longest response text of SpecExtract, in pieces of Pieces.
MaxPieces == 4
\* The prompts one session submits.
MaxQueries == 3
\* The lines of a requirements file.
MaxLines == 3

(***************************************************************************)
(* Characters, as Python's re sees them in a str pattern.                  *)
(***************************************************************************)
\* [A-Z] of the pattern: the ASCII uppercase letters.
Upper ==
    {"A","B","C","D","E","F","G","H","I","J","K","L","M",
     "N","O","P","Q","R","S","T","U","V","W","X","Y","Z"}

Lower ==
    {"a","b","c","d","e","f","g","h","i","j","k","l","m",
     "n","o","p","q","r","s","t","u","v","w","x","y","z"}

Digit == {"0","1","2","3","4","5","6","7","8","9"}

\* \w: what \b takes for a word character.
IsWordChar(c) == c \in Upper \cup Lower \cup Digit \cup {"_"}

Max(S) == CHOOSE x \in S : \A y \in S : y <= x

\* 'pat in text' of Python: pat is a contiguous slice of text.
Contains(text, pat) ==
    \E i \in 1..(Len(text) - Len(pat) + 1) : SubSeq(text, i, i + Len(pat) - 1) = pat

(***************************************************************************)
(* re.findall(r'\b([A-Z]{1,5})\b', text)                                   *)
(***************************************************************************)
\* The fewest and the most letters [A-Z]{1,5} takes.
MinRun == 1
MaxRun == 5

\* Mutant: the pattern without its two \b, [A-Z]{1,5} alone.
IsBoundary_anywhere(text, i) == TRUE

\* \b at the place before text[i] (i = Len(text) + 1: the end of the text):
\* exactly one of the two neighbours is a word character.
IsBoundary(text, i) ==
    LET before == i > 1 /\ IsWordChar(text[i - 1])
        after  == i <= Len(text) /\ IsWordChar(text[i])
    IN  before # after

\* The length of the match of the pattern that starts at i, 0 when there is none.
\* {1,5} is greedy: the longest run that a \b follows is the one matched.
MatchLen(text, i) ==
    LET lens == {k \in MinRun..MaxRun :
                    /\ i + k - 1 <= Len(text)
                    /\ \A j \in i..(i + k - 1) : text[j] \in Upper
                    /\ IsBoundary(text, i + k)}
    IN  IF IsBoundary(text, i) /\ lens # {} THEN Max(lens) ELSE 0

\* The non-overlapping matches from place i on, left to right.
RECURSIVE findall(_, _)
findall(text, i) ==
    IF i > Len(text) THEN <<>>
    ELSE LET k == MatchLen(text, i)
         IN  IF k = 0 THEN findall(text, i + 1)
             ELSE <<SubSeq(text, i, i + k - 1)>> \o findall(text, i + k)

(***************************************************************************)
(* find_ticker_in_response                                                 *)
(***************************************************************************)
\* What a call ends with: None, a ticker, or an exception.
None == <<"None">>
Some(t) == <<"Some", t>>
Raise(e) == <<"Raise", e>>

common_non_tickers_without_CEO ==
    {<<"C","F","O">>, <<"C","O","O">>, <<"U","S","A">>,
     <<"E","T","F">>, <<"L","L","C">>, <<"I","N","C">>, <<"A","P","I">>,
     <<"N","E","W","S">>}

common_non_tickers ==
    {<<"C","E","O">>, <<"C","F","O">>, <<"C","O","O">>, <<"U","S","A">>,
     <<"E","T","F">>, <<"L","L","C">>, <<"I","N","C">>, <<"A","P","I">>,
     <<"N","E","W","S">>}

TableMarker == <<"-","-","-","|","-","-","-","|">>
RecommendationTrend ==
    <<"R","e","c","o","m","m","e","n","d","a","t","i","o","n"," ","T","r","e","n","d">>
FinancialData == <<"F","i","n","a","n","c","i","a","l"," ","D","a","t","a">>

\* The condition of line 161.
HasContextMarker(text) ==
    \/ Contains(text, TableMarker)
    \/ Contains(text, RecommendationTrend)
    \/ Contains(text, FinancialData)

\* Mutant: the loop gives up at the first excluded candidate.
RECURSIVE ticker_loop_break(_, _, _)
ticker_loop_break(potential_tickers, text, k) ==
    IF k > Len(potential_tickers) THEN None
    ELSE IF potential_tickers[k] \in common_non_tickers THEN None
    ELSE IF HasContextMarker(text) THEN Some(potential_tickers[k])
    ELSE ticker_loop_break(potential_tickers, text, k + 1)

\* Mutant: the fallback of line 166 is taken.
RECURSIVE ticker_loop_fallback(_, _, _)
ticker_loop_fallback(potential_tickers, text, k) ==
    IF k > Len(potential_tickers) THEN None
    ELSE IF potential_tickers[k] \notin common_non_tickers
         THEN Some(potential_tickers[k])
    ELSE ticker_loop_fallback(potential_tickers, text, k + 1)

\* The for loop of lines 158-166, from the k-th candidate on, and line 168.
RECURSIVE ticker_loop(_, _, _)
ticker_loop(potential_tickers, text, k) ==
    IF k > Len(potential_tickers) THEN None
    ELSE IF potential_tickers[k] \notin common_non_tickers
         THEN IF HasContextMarker(text) THEN Some(potential_tickers[k])
              ELSE ticker_loop(potential_tickers, text, k + 1)
    ELSE ticker_loop(potential_tickers, text, k + 1)

\* Mutant: no test for an empty list; the first candidate is looked at by index.
find_ticker_unguarded(text) ==
    LET potential_tickers == findall(text, 1)
    IN  IF potential_tickers = <<>> THEN Raise("IndexError")
        ELSE ticker_loop(potential_tickers, text, 1)

find_ticker_in_response(text) ==
    LET potential_tickers == findall(text, 1)
    IN  IF potential_tickers = <<>> THEN None
        ELSE ticker_loop(potential_tickers, text, 1)

(***************************************************************************)
(* Response texts: every concatenation of at most MaxPieces pieces.        *)
(***************************************************************************)
\* Two tickers, an excluded word, a lowercase letter (a word character), the
\* three markers, and a table rule one '|' short of a marker (no word character).
Pieces ==
    { <<"A","A","P","L">>, <<"A">>, <<"C","E","O">>, <<"a">>,
      TableMarker, RecommendationTrend, FinancialData,
      <<"-","-","-","|","-","-","-">> }

RECURSIVE TextsOf(_)
TextsOf(n) ==
    IF n = 0 THEN {<<>>}
    ELSE LET shorter == TextsOf(n - 1)
         IN  shorter \cup {t \o p : t \in shorter, p \in Pieces}

\* The texts of the specification's scenarios 1 to 4.
Scenario1 ==
    <<"A","A","P","L"," ","p","r","i","c","e",":"," ","$","1","5","0","\n",
      "-","-","-","|","-","-","-","|","\n">>
Scenario2 ==
    <<"T","h","e"," ","C","E","O"," ","o","f"," ","E","T","F"," ","C","o","r",
      "p"," ","s","p","o","k","e"," ","t","o","d","a","y">>
Scenario3 ==
    <<"M","S","F","T"," ","i","s"," ","a"," ","g","r","e","a","t"," ","c","o",
      "m","p","a","n","y">>
Scenario4 == <<>>

Texts == TextsOf(MaxPieces) \cup {Scenario1, Scenario2, Scenario3, Scenario4}

(***************************************************************************)
(* Texts of uppercase runs and their neighbours.                           *)
(***************************************************************************)
\* Two tickers, a run of six letters, an excluded word, one word character of
\* each kind that is no uppercase letter, and a marker (no word character).
TokenPieces ==
    { <<"A","A","P","L">>, <<"A">>, <<"N","A","S","D","A","Q">>,
      <<"C","E","O">>, <<"a">>, <<"7">>, <<"_">>, TableMarker }

RECURSIVE TokenTextsOf(_)
TokenTextsOf(n) ==
    IF n = 0 THEN {<<>>}
    ELSE LET shorter == TokenTextsOf(n - 1)
         IN  shorter \cup {t \o p : t \in shorter, p \in TokenPieces}

\* "Ab C7 _D NASDAQ ---|---| CEO AAPL": a run next to a lowercase letter, one
\* next to a digit, one next to an underscore, a run of six, an excluded word
\* and a ticker.
MixedRuns ==
    <<"A","b"," ","C","7"," ","_","D"," ","N","A","S","D","A","Q"," ",
      "-","-","-","|","-","-","-","|"," ","C","E","O"," ","A","A","P","L">>

TokenTexts == TokenTextsOf(MaxPieces) \cup {MixedRuns}

(***************************************************************************)
(* The application's inputs: prompts, agent responses, agent failures.     *)
(***************************************************************************)
Prompts ==
    { <<"$","A","A","P","L"," ","f","i","n","a","n","c","i","a","l","s">> }

NewsResponse ==
    <<"N","E","W","S",":"," ","N","V","D","A"," ","R","e","c","o","m","m","e",
      "n","d","a","t","i","o","n"," ","T","r","e","n","d">>
AllExcludedResponse ==
    <<"U","S","A"," ","E","T","F"," ","F","i","n","a","n","c","i","a","l"," ",
      "D","a","t","a">>

\* What response.content may be when it is a str.
Responses == {Scenario1, Scenario3, Scenario4, NewsResponse, AllExcludedResponse}

\* str(e) of what agent_team.run may raise.
AgentErrors ==
    { <<"X"," ","F","i","n","a","n","c","i","a","l"," ","D","a","t","a"," ","A",
        "P","I"," ","d","o","w","n">> }

\* str(e) of the TypeError of len(None), line 237.
NoLenError ==
    <<"o","b","j","e","c","t"," ","o","f"," ","t","y","p","e"," ","'","N","o",
      "n","e","T","y","p","e","'"," ","h","a","s"," ","n","o"," ","l","e","n",
      "(",")">>

\* Line 252: f"Sorry, I encountered an error processing your request: {e}".
ErrorText(e) ==
    <<"S","o","r","r","y",","," ","I"," ","e","n","c","o","u","n","t","e","r",
      "e","d"," ","a","n"," ","e","r","r","o","r"," ","p","r","o","c","e","s",
      "s","i","n","g"," ","y","o","u","r"," ","r","e","q","u","e","s","t",":",
      " ">> \o e

\* What os.getenv('GEMINI_API_KEY') gives: None when the variable is not set,
\* the empty str, or a key.
ApiKeys == {None, Some(<<>>), Some(<<"k">>)}

\* How lines 203-204 may go: both resources built, initialize_agents raises,
\* or get_yfinance_tool raises after initialize_agents returned.
InitOutcomes == {"ok", "agents_raise", "tool_raises"}

\* How the body of display_stock_chart may go.
ChartOutcomes ==
    {"fetch_raises", "no_data", "missing_columns", "render_raises",
     "no_points", "rendered"}

VARIABLES
    ex_text,      \* SpecExtract: the argument of the call of find_ticker_in_response
    ex_result,    \* SpecExtract: what the call ended with; Pending before it
    gemini_api_key, \* os.getenv('GEMINI_API_KEY') of the process
    resources,    \* what st.cache_resource holds: "agent_team", "yf_tool"
    pc,           \* where the script run of main is
    messages,     \* st.session_state.messages
    prompt,       \* the prompt at hand
    full_response_content,
    potential_ticker_for_chart,
    non_tickers,  \* common_non_tickers as the last call left it
    notices,      \* what the run at hand has shown with st.error, st.warning, st.plotly_chart
    chart_outcome, \* how the body of display_stock_chart went in the run at hand
    qid,          \* the number of prompts submitted so far
    trace,        \* history: the steps taken, each with its query
    seen,         \* history: the calls of find_ticker_in_response, <<text, result>> each
    v_pc,         \* SpecVersions: where get_installed_package_versions is
    v_file,       \* SpecVersions: the requirements file: how open goes, and its lines
    packages,     \* SpecVersions: the packages still to look up
    installed_versions,
    v_result,     \* SpecVersions: what the call returned; Pending before it
    v_events      \* SpecVersions, history: what went wrong during the call

exvars == <<ex_text, ex_result>>
startvars == <<gemini_api_key, resources>>
appvars ==
    <<startvars, pc, messages, prompt, full_response_content, potential_ticker_for_chart,
      non_tickers, notices, chart_outcome, qid, trace, seen>>
vvars == <<v_pc, v_file, packages, installed_versions, v_result, v_events>>
vars == <<exvars, appvars, vvars>>

Pending == <<"Pending">>

\* A dictionary is the set of its <<key, value>> items; {} of Python has none.
EmptyDict == {}

\* What a call of get_installed_package_versions returned.
ReturnedDict(d) == <<"Returned", d>>

InitVersionsIdle ==
    /\ v_pc = "done"
    /\ v_file = [open |-> "ok", lines |-> <<>>]
    /\ packages = <<>>
    /\ installed_versions = EmptyDict
    /\ v_result = Pending
    /\ v_events = {}

\* The session before the first run of the script.
InitApp ==
    /\ resources = {}
    /\ pc = "start"
    /\ messages = <<>>
    /\ prompt = <<>>
    /\ full_response_content = <<>>
    /\ potential_ticker_for_chart = None
    /\ non_tickers = common_non_tickers
    /\ notices = {}
    /\ chart_outcome = "none"
    /\ qid = 0
    /\ trace = <<>>
    /\ seen = <<>>

(***************************************************************************)
(* SpecExtract: find_ticker_in_response applied to every text of Texts.    *)
(***************************************************************************)
InitExtract ==
    /\ ex_text \in Texts
    /\ ex_result = Pending
    /\ gemini_api_key = None
    /\ InitApp
    /\ InitVersionsIdle

CallFindTicker ==
    /\ ex_result = Pending
    /\ ex_result' = find_ticker_in_response(ex_text)
    /\ UNCHANGED <<ex_text, appvars, vvars>>

NextExtract == CallFindTicker

SpecExtract == InitExtract /\ [][NextExtract]_vars

\* The same call, on the texts of uppercase runs.
InitTokens ==
    /\ ex_text \in TokenTexts
    /\ ex_result = Pending
    /\ gemini_api_key = None
    /\ InitApp
    /\ InitVersionsIdle

SpecTokens == InitTokens /\ [][NextExtract]_vars

(***************************************************************************)
(* Spec: one session of the chat application, main of updated_fin_agents.  *)
(***************************************************************************)
Event(q, step, arg) == [q |-> q, step |-> step, arg |-> arg]

Message(role, content) == [role |-> role, content |-> content]

\* Mutant: the test of line 259 lets None through.
Truthy_always(v) == TRUE

\* Python's truth of potential_ticker_for_chart, line 259.
Truthy(v) == v[1] = "Some" /\ Len(v[2]) > 0

\* Mutant: the key is tested with 'is None', which lets the empty str through.
KeyMissing_unset_only(key) == key = None

\* Line 21: not gemini_api_key.
KeyMissing(key) == ~Truthy(key)

\* What st.cache_resource holds after lines 203-204 went as o: a function that
\* raised has cached nothing.
Cached(o) ==
    CASE o = "ok"           -> {"agent_team", "yf_tool"}
      [] o = "agents_raise" -> {}
      [] o = "tool_raises"  -> {"agent_team"}

\* The first run of the script, without a prompt: the key check of lines 19-24,
\* then main down to line 208. st.stop() ends the run at line 24 or at line
\* 208; otherwise the run renders the chat input and ends.
FirstRun(o) ==
    /\ pc = "start"
    /\ IF KeyMissing(gemini_api_key)
       THEN /\ notices' = {<<"error", "GEMINI_API_KEY not found">>}
            /\ pc' = "stopped"
            /\ UNCHANGED resources
       ELSE /\ resources' = resources \cup Cached(o)
            /\ IF o = "ok"
               THEN /\ pc' = "idle"
                    /\ UNCHANGED notices
               ELSE /\ notices' = {<<"error", "Critical Error during initialization">>}
                    /\ pc' = "stopped"
    /\ UNCHANGED <<gemini_api_key, messages, prompt, full_response_content,
                   potential_ticker_for_chart, non_tickers, chart_outcome, qid,
                   trace, seen, exvars, vvars>>

\* The page is loaded again after a run that st.stop() ended: the script runs
\* from its first line, in the same process and with the same environment.
Rerun ==
    /\ pc = "stopped"
    /\ pc' = "start"
    /\ notices' = {}
    /\ UNCHANGED <<startvars, messages, prompt, full_response_content,
                   potential_ticker_for_chart, non_tickers, chart_outcome, qid,
                   trace, seen, exvars, vvars>>

\* Mutant: a prompt is taken while the one before it is still handled.
Submit_any_time(p) ==
    /\ qid < MaxQueries
    /\ messages' = Append(messages, Message("user", p))
    /\ prompt' = p
    /\ full_response_content' = <<>>
    /\ potential_ticker_for_chart' = None
    /\ notices' = {}
    /\ chart_outcome' = "none"
    /\ qid' = qid + 1
    /\ trace' = Append(trace, Event(qid + 1, "submit", <<>>))
    /\ pc' = "agent"
    /\ UNCHANGED <<non_tickers, seen, startvars, exvars, vvars>>

\* Lines 211-221: chat_input hands the run a prompt.
Submit(p) ==
    /\ pc = "idle"
    /\ qid < MaxQueries
    /\ messages' = Append(messages, Message("user", p))
    /\ prompt' = p
    /\ full_response_content' = <<>>
    /\ potential_ticker_for_chart' = None
    /\ notices' = {}
    /\ chart_outcome' = "none"
    /\ qid' = qid + 1
    /\ trace' = Append(trace, Event(qid + 1, "submit", <<>>))
    /\ pc' = "agent"
    /\ UNCHANGED <<non_tickers, seen, startvars, exvars, vvars>>

\* Mutant: line 248 stands after the try statement, so that the extraction
\* follows the except branch too.
HandleError_then_extract(e) ==
    /\ notices' = notices \cup {<<"error", e>>}
    /\ full_response_content' = ErrorText(e)
    /\ pc' = "extract"

\* Mutant: the except branch ends the run, and line 256 is never reached.
HandleError_and_return(e) ==
    /\ notices' = notices \cup {<<"error", e>>}
    /\ full_response_content' = ErrorText(e)
    /\ pc' = "idle"

\* Lines 250-253: the except branch of main.
HandleError(e) ==
    /\ notices' = notices \cup {<<"error", e>>}
    /\ full_response_content' = ErrorText(e)
    /\ pc' = "record"

\* Lines 225-244: the agent answers with a str, which is displayed.
AgentReturns(t) ==
    /\ pc = "agent"
    /\ full_response_content' = t
    /\ pc' = "extract"
    /\ trace' = Append(trace, Event(qid, "agent", <<"returned">>))
    /\ UNCHANGED <<messages, prompt, potential_ticker_for_chart, non_tickers,
                   notices, chart_outcome, qid, seen, startvars, exvars, vvars>>

\* Lines 225-237: response.content is None, and len() raises.
AgentContentNone ==
    /\ pc = "agent"
    /\ HandleError(NoLenError)
    /\ trace' = Append(trace, Event(qid, "agent", <<"content_none">>))
    /\ UNCHANGED <<messages, prompt, potential_ticker_for_chart, non_tickers,
                   chart_outcome, qid, seen, startvars, exvars, vvars>>

\* Line 225: agent_team.run raises.
AgentRaises(e) ==
    /\ pc = "agent"
    /\ HandleError(e)
    /\ trace' = Append(trace, Event(qid, "agent", <<"raised">>))
    /\ UNCHANGED <<messages, prompt, potential_ticker_for_chart, non_tickers,
                   chart_outcome, qid, seen, startvars, exvars, vvars>>

\* find_ticker_in_response with the exclusion set handed in.
RECURSIVE ticker_loop_in(_, _, _, _)
ticker_loop_in(excluded, potential_tickers, text, k) ==
    IF k > Len(potential_tickers) THEN None
    ELSE IF potential_tickers[k] \notin excluded /\ HasContextMarker(text)
         THEN Some(potential_tickers[k])
    ELSE ticker_loop_in(excluded, potential_tickers, text, k + 1)

\* Mutant: the exclusion set is kept between calls, and a call adds the ticker
\* it returns to it.
Extract_remembering ==
    /\ pc = "extract"
    /\ LET r == ticker_loop_in(non_tickers, findall(full_response_content, 1),
                               full_response_content, 1)
       IN  /\ potential_ticker_for_chart' = r
           /\ non_tickers' = IF r = None THEN non_tickers
                             ELSE non_tickers \cup {r[2]}
           /\ seen' = Append(seen, <<full_response_content, r>>)
           /\ trace' = Append(trace, Event(qid, "extract", r))
    /\ pc' = "record"
    /\ UNCHANGED <<messages, prompt, full_response_content, notices,
                   chart_outcome, qid, startvars, exvars, vvars>>

\* Line 248: the call of find_ticker_in_response, which builds its exclusion
\* set anew (line 157) and leaves everything else as it is.
Extract ==
    /\ pc = "extract"
    /\ LET r == find_ticker_in_response(full_response_content)
       IN  /\ seen' = Append(seen, <<full_response_content, r>>)
           /\ trace' = Append(trace, Event(qid, "extract", r))
           /\ IF r[1] = "Raise"
              THEN /\ HandleError(r[2])
                   /\ UNCHANGED potential_ticker_for_chart
              ELSE /\ potential_ticker_for_chart' = r
                   /\ pc' = "record"
                   /\ UNCHANGED <<full_response_content, notices>>
    /\ non_tickers' = common_non_tickers
    /\ UNCHANGED <<messages, prompt, chart_outcome, qid, startvars, exvars, vvars>>

\* Line 256: the assistant's message joins the history.
Record ==
    /\ pc = "record"
    /\ messages' = Append(messages, Message("assistant", full_response_content))
    /\ pc' = "chart"
    /\ UNCHANGED <<prompt, full_response_content, potential_ticker_for_chart,
                   non_tickers, notices, chart_outcome, qid, trace, seen, startvars, exvars, vvars>>

\* Line 259, no ticker: the run ends.
ChartSkip ==
    /\ pc = "chart"
    /\ ~Truthy(potential_ticker_for_chart)
    /\ pc' = "idle"
    /\ trace' = Append(trace, Event(qid, "done", <<>>))
    /\ UNCHANGED <<messages, prompt, full_response_content,
                   potential_ticker_for_chart, non_tickers, notices,
                   chart_outcome, qid, seen, startvars, exvars, vvars>>

\* Mutant: the chart is asked for the first candidate of the text, excluded or not.
ChartCall_first_candidate ==
    /\ pc = "chart"
    /\ Truthy(potential_ticker_for_chart)
    /\ pc' = "display"
    /\ trace' = Append(trace, Event(qid, "chart",
                       Some(findall(full_response_content, 1)[1])))
    /\ UNCHANGED <<messages, prompt, full_response_content,
                   potential_ticker_for_chart, non_tickers, notices,
                   chart_outcome, qid, seen, startvars, exvars, vvars>>

\* Lines 259-261 and 121: display_stock_chart is called with the ticker.
ChartCall ==
    /\ pc = "chart"
    /\ Truthy(potential_ticker_for_chart)
    /\ pc' = "display"
    /\ trace' = Append(trace, Event(qid, "chart", potential_ticker_for_chart))
    /\ UNCHANGED <<messages, prompt, full_response_content,
                   potential_ticker_for_chart, non_tickers, notices,
                   chart_outcome, qid, seen, startvars, exvars, vvars>>

\* The ticker display_stock_chart was called with.
ChartTicker == trace[Len(trace)].arg

\* What display_stock_chart shows for an outcome of its body.
ChartNotice(o) ==
    CASE o = "fetch_raises"    -> <<"error", ChartTicker>>
      [] o = "render_raises"   -> <<"error", ChartTicker>>
      [] o = "no_data"         -> <<"warning", ChartTicker>>
      [] o = "missing_columns" -> <<"warning", ChartTicker>>
      [] o = "no_points"       -> <<"warning", ChartTicker>>
      [] o = "rendered"        -> <<"chart", ChartTicker>>

\* Mutant: display_stock_chart without its try, so that what the fetch or the
\* rendering raises leaves main.
DisplayStockChart_no_try(o) ==
    /\ pc = "display"
    /\ IF o \in {"fetch_raises", "render_raises"}
       THEN /\ pc' = "crashed"
            /\ trace' = Append(trace, Event(qid, "fetch", <<>>))
            /\ UNCHANGED notices
       ELSE /\ pc' = "idle"
            /\ notices' = notices \cup {ChartNotice(o)}
            /\ trace' = trace \o <<Event(qid, "fetch", <<>>), Event(qid, "done", <<>>)>>
    /\ chart_outcome' = o
    /\ UNCHANGED <<messages, prompt, full_response_content,
                   potential_ticker_for_chart, non_tickers, qid, seen, startvars, exvars, vvars>>

\* Lines 122-143: the body of display_stock_chart; the run ends after it.
DisplayStockChart(o) ==
    /\ pc = "display"
    /\ pc' = "idle"
    /\ notices' = notices \cup {ChartNotice(o)}
    /\ chart_outcome' = o
    /\ trace' = trace \o <<Event(qid, "fetch", <<>>), Event(qid, "done", <<>>)>>
    /\ UNCHANGED <<messages, prompt, full_response_content,
                   potential_ticker_for_chart, non_tickers, qid, seen, startvars, exvars, vvars>>

\* Lines 184-186: the Clear Chat History button.
ClearChatHistory ==
    /\ pc = "idle"
    /\ messages' = <<>>
    /\ notices' = {}
    /\ chart_outcome' = "none"
    /\ UNCHANGED <<pc, prompt, full_response_content, potential_ticker_for_chart,
                   non_tickers, qid, trace, seen, startvars, exvars, vvars>>

Init ==
    /\ gemini_api_key \in ApiKeys
    /\ InitApp
    /\ InitVersionsIdle
    /\ ex_text = <<>>
    /\ ex_result = Pending

Next ==
    \/ \E o \in InitOutcomes : FirstRun(o)
    \/ Rerun
    \/ \E p \in Prompts : Submit(p)
    \/ \E t \in Responses : AgentReturns(t)
    \/ AgentContentNone
    \/ \E e \in AgentErrors : AgentRaises(e)
    \/ Extract
    \/ Record
    \/ ChartSkip
    \/ ChartCall
    \/ \E o \in ChartOutcomes : DisplayStockChart(o)
    \/ ClearChatHistory

Spec == Init /\ [][Next]_vars

(***************************************************************************)
(* main of finance_agents.py, the application's first version: no key      *)
(* check, no sidebar, no chart; the agents are built anew for every prompt.*)
(* Its places of pc are named fa_*, so that no step of one script is taken *)
(* in a session of the other.                                              *)
(***************************************************************************)
\* Line 149: f"⚠️ Error: {str(e)}"; the sign is one element of the text.
FinanceAgentsErrorText(e) ==
    <<"warning sign"," ","E","r","r","o","r",":"," ">> \o e

\* Lines 105-106: the session before the first prompt.
InitFinanceAgents ==
    /\ gemini_api_key = None
    /\ resources = {}
    /\ pc = "fa_idle"
    /\ messages = <<>>
    /\ prompt = <<>>
    /\ full_response_content = <<>>
    /\ potential_ticker_for_chart = None
    /\ non_tickers = common_non_tickers
    /\ notices = {}
    /\ chart_outcome = "none"
    /\ qid = 0
    /\ trace = <<>>
    /\ seen = <<>>
    /\ InitVersionsIdle
    /\ ex_text = <<>>
    /\ ex_result = Pending

\* Lines 114-126: chat_input hands the run a prompt; the user's message joins
\* the history and initialize_agents, for which the script has no handler,
\* builds the team.
FinanceAgentsSubmit(p) ==
    /\ pc = "fa_idle"
    /\ qid < MaxQueries
    /\ messages' = Append(messages, Message("user", p))
    /\ prompt' = p
    /\ full_response_content' = <<>>
    /\ qid' = qid + 1
    /\ trace' = Append(trace, Event(qid + 1, "submit", <<>>))
    /\ pc' = "fa_agent"
    /\ UNCHANGED <<potential_ticker_for_chart, non_tickers, notices,
                   chart_outcome, seen, startvars, exvars, vvars>>

\* Lines 128-146 and 152: the agent answers with a str, which is displayed
\* and joins the history.
FinanceAgentsReturns(t) ==
    /\ pc = "fa_agent"
    /\ full_response_content' = t
    /\ messages' = Append(messages, Message("assistant", t))
    /\ trace' = Append(trace, Event(qid, "agent", <<"returned">>))
    /\ pc' = "fa_idle"
    /\ UNCHANGED <<prompt, potential_ticker_for_chart, non_tickers, notices,
                   chart_outcome, qid, seen, startvars, exvars, vvars>>

\* Lines 128-152: agent_team.run raises, or len(response_content) does; the
\* except branch makes the error text the answer, which joins the history.
FinanceAgentsRaises(e) ==
    /\ pc = "fa_agent"
    /\ full_response_content' = FinanceAgentsErrorText(e)
    /\ messages' = Append(messages, Message("assistant", FinanceAgentsErrorText(e)))
    /\ trace' = Append(trace, Event(qid, "agent", <<"raised">>))
    /\ pc' = "fa_idle"
    /\ UNCHANGED <<prompt, potential_ticker_for_chart, non_tickers, notices,
                   chart_outcome, qid, seen, startvars, exvars, vvars>>

NextFinanceAgents ==
    \/ \E p \in Prompts : FinanceAgentsSubmit(p)
    \/ \E t \in Responses : FinanceAgentsReturns(t)
    \/ \E e \in AgentErrors \cup {NoLenError} : FinanceAgentsRaises(e)

\* A session of either script: updated_fin_agents.py or finance_agents.py.
InitChat == Init \/ InitFinanceAgents

NextChat == Next \/ NextFinanceAgents

SpecChat == InitChat /\ [][NextChat]_vars

(***************************************************************************)
(* SpecVersions: get_installed_package_versions of check_versions.py.      *)
(***************************************************************************)
Whitespace == {" ", "\n", "\t"}

RECURSIVE lstrip(_)
lstrip(s) ==
    IF s # <<>> /\ Head(s) \in Whitespace THEN lstrip(Tail(s)) ELSE s

RECURSIVE rstrip(_)
rstrip(s) ==
    IF s # <<>> /\ s[Len(s)] \in Whitespace THEN rstrip(SubSeq(s, 1, Len(s) - 1))
    ELSE s

\* str.strip()
strip(s) == rstrip(lstrip(s))

\* line.startswith("#")
StartsWithHash(line) == line # <<>> /\ line[1] = "#"

\* Line 20: the stripped lines that are not blank and do not start with '#'.
RECURSIVE ReadPackages(_)
ReadPackages(lines) ==
    IF lines = <<>> THEN <<>>
    ELSE IF strip(Head(lines)) # <<>> /\ ~StartsWithHash(Head(lines))
         THEN <<strip(Head(lines))>> \o ReadPackages(Tail(lines))
    ELSE ReadPackages(Tail(lines))

\* [a-zA-Z0-9_-] of line 24.
NameChars == Upper \cup Lower \cup Digit \cup {"_", "-"}

\* re.match(r"([a-zA-Z0-9_-]+)", package): the longest prefix of name
\* characters, <<>> when the match fails.
PackageName(package) ==
    LET lens == {k \in 0..Len(package) : \A j \in 1..k : package[j] \in NameChars}
    IN  SubSeq(package, 1, Max(lens))

\* installed_versions[name] = version
DictSet(d, name, version) ==
    {item \in d : item[1] # name} \cup {<<name, version>>}

\* The lines a requirements file is made of.
RawLines ==
    { <<"a","g","n","o","\n">>,
      <<"p","a","n","d","a","s",">","=","2","\n">>,
      <<"#","x","\n">>,
      <<" ","#","x","\n">>,
      <<"\n">>,
      <<"=","=","1","\n">> }

RECURSIVE FilesOf(_)
FilesOf(n) ==
    IF n = 0 THEN {<<>>}
    ELSE LET shorter == FilesOf(n - 1)
         IN  shorter \cup {Append(f, l) : f \in shorter, l \in RawLines}

\* What pip show reports as a version.
Versions == {"0.2", "2.1"}

\* How pip show goes for a package.
PipOutcomes ==
    {<<"version", v>> : v \in Versions}
        \cup {<<"no_version">>, <<"called_process_error">>,
              <<"file_not_found">>, <<"exception">>}

InitVersions ==
    /\ v_pc = "start"
    /\ v_file \in [open : {"ok", "file_not_found", "exception"},
                   lines : FilesOf(MaxLines)]
    /\ packages = <<>>
    /\ installed_versions = EmptyDict
    /\ v_result = Pending
    /\ v_events = {}
    /\ gemini_api_key = None
    /\ InitApp
    /\ ex_text = <<>>
    /\ ex_result = Pending

\* Lines 17-20 and 50-55: the file is opened and read, or the call returns {}.
OpenRequirements ==
    /\ v_pc = "start"
    /\ IF v_file.open = "ok"
       THEN /\ packages' = ReadPackages(v_file.lines)
            /\ v_pc' = "loop"
            /\ UNCHANGED <<v_result, v_events>>
       ELSE /\ v_result' = ReturnedDict(EmptyDict)
            /\ v_events' = v_events \cup {<<"open", v_file.open>>}
            /\ v_pc' = "done"
            /\ UNCHANGED packages
    /\ UNCHANGED <<v_file, installed_versions, exvars, appvars>>

\* Mutant: a missing pip returns what has been collected so far.
LookUpPackage_partial(o) ==
    /\ v_pc = "loop"
    /\ packages # <<>>
    /\ PackageName(Head(packages)) # <<>>
    /\ packages' = Tail(packages)
    /\ CASE o[1] = "version" ->
              /\ installed_versions' =
                    DictSet(installed_versions, PackageName(Head(packages)), o[2])
              /\ UNCHANGED <<v_pc, v_result, v_events>>
         [] o[1] = "no_version" ->
              /\ v_events' = v_events \cup {<<"pip", "no_version">>}
              /\ UNCHANGED <<v_pc, v_result, installed_versions>>
         [] o[1] = "called_process_error" ->
              /\ v_events' = v_events \cup {<<"pip", "called_process_error">>}
              /\ UNCHANGED <<v_pc, v_result, installed_versions>>
         [] o[1] \in {"file_not_found", "exception"} ->
              /\ v_events' = v_events \cup {<<"pip", o[1]>>}
              /\ v_result' = ReturnedDict(installed_versions)
              /\ v_pc' = "done"
              /\ UNCHANGED installed_versions
    /\ UNCHANGED <<v_file, exvars, appvars>>

\* Lines 24-29: a line no package name can be read from is skipped.
SkipUnparsed ==
    /\ v_pc = "loop"
    /\ packages # <<>>
    /\ PackageName(Head(packages)) = <<>>
    /\ packages' = Tail(packages)
    /\ v_events' = v_events \cup {<<"parse", "no_match">>}
    /\ UNCHANGED <<v_pc, v_file, installed_versions, v_result, exvars, appvars>>

\* Lines 24-49: one turn of the loop for a package whose name was read.
LookUpPackage(o) ==
    /\ v_pc = "loop"
    /\ packages # <<>>
    /\ PackageName(Head(packages)) # <<>>
    /\ packages' = Tail(packages)
    /\ CASE o[1] = "version" ->
              /\ installed_versions' =
                    DictSet(installed_versions, PackageName(Head(packages)), o[2])
              /\ UNCHANGED <<v_pc, v_result, v_events>>
         [] o[1] = "no_version" ->
              /\ v_events' = v_events \cup {<<"pip", "no_version">>}
              /\ UNCHANGED <<v_pc, v_result, installed_versions>>
         [] o[1] = "called_process_error" ->
              /\ v_events' = v_events \cup {<<"pip", "called_process_error">>}
              /\ UNCHANGED <<v_pc, v_result, installed_versions>>
         [] o[1] \in {"file_not_found", "exception"} ->
              /\ v_events' = v_events \cup {<<"pip", o[1]>>}
              /\ v_result' = ReturnedDict(EmptyDict)
              /\ v_pc' = "done"
              /\ UNCHANGED installed_versions
    /\ UNCHANGED <<v_file, exvars, appvars>>

\* Line 57: the loop is over.
ReturnVersions ==
    /\ v_pc = "loop"
    /\ packages = <<>>
    /\ v_result' = ReturnedDict(installed_versions)
    /\ v_pc' = "done"
    /\ UNCHANGED <<v_file, packages, installed_versions, v_events, exvars, appvars>>

NextVersions ==
    \/ OpenRequirements
    \/ SkipUnparsed
    \/ \E o \in PipOutcomes : LookUpPackage(o)
    \/ ReturnVersions

SpecVersions == InitVersions /\ [][NextVersions]_vars

(***************************************************************************)
(* The claims' own reading of a text: candidates, exclusions, markers.     *)
(***************************************************************************)
ExclusionSet ==
    {<<"C","E","O">>, <<"C","F","O">>, <<"C","O","O">>, <<"U","S","A">>,
     <<"E","T","F">>, <<"L","L","C">>, <<"I","N","C">>, <<"A","P","I">>,
     <<"N","E","W","S">>}

ContextMarkers ==
    { <<"-","-","-","|","-","-","-","|">>,
      <<"R","e","c","o","m","m","e","n","d","a","t","i","o","n"," ","T","r","e","n","d">>,
      <<"F","i","n","a","n","c","i","a","l"," ","D","a","t","a">> }

ContextMarker(text) == \E m \in ContextMarkers : Contains(text, m)

\* text[i..i+k-1] is a run of 1 to 5 uppercase letters with no word character
\* on either side.
IsCandidateAt(text, i, k) ==
    /\ k \in 1..5
    /\ i >= 1
    /\ i + k - 1 <= Len(text)
    /\ \A j \in i..(i + k - 1) : text[j] \in Upper
    /\ (i = 1 \/ ~IsWordChar(text[i - 1]))
    /\ (i + k - 1 = Len(text) \/ ~IsWordChar(text[i + k]))

\* The places <<i, k>> of the candidates of a text.
CandidatePlaces(text) ==
    {pl \in (1..Len(text)) \X (1..5) : IsCandidateAt(text, pl[1], pl[2])}

TokenAt(text, pl) == SubSeq(text, pl[1], pl[1] + pl[2] - 1)

QualifyingPlaces(text) ==
    {pl \in CandidatePlaces(text) : TokenAt(text, pl) \notin ExclusionSet}

\* The leftmost candidate that is not excluded (when there is one).
FirstQualifying(text) ==
    LET places == QualifyingPlaces(text)
        pl == CHOOSE p \in places : \A q \in places : p[1] <= q[1]
    IN  TokenAt(text, pl)

Returned == ex_result # Pending

\* C1: a text with a candidate outside the exclusion set and with a context
\* marker yields the leftmost such candidate, excluded candidates before it
\* being skipped.
C1_FirstQualifyingReturned ==
    (Returned /\ QualifyingPlaces(ex_text) # {} /\ ContextMarker(ex_text))
        => ex_result = Some(FirstQualifying(ex_text))

\* The call returned a ticker that an excluded candidate precedes in the text.
C1_Witness ==
    /\ Returned
    /\ ContextMarker(ex_text)
    /\ LET places == QualifyingPlaces(ex_text)
       IN  /\ places # {}
           /\ ex_result = Some(FirstQualifying(ex_text))
           /\ \E ex \in CandidatePlaces(ex_text) \ places :
                 \A q \in places : ex[1] < q[1]

\* C2: a text with no context marker yields nothing, however many candidates
\* outside the exclusion set it holds.
C2_NoMarkerNoTicker ==
    (Returned /\ ~ContextMarker(ex_text)) => ex_result = None

\* The call returned nothing for a text with two qualifying candidates and no marker.
C2_Witness ==
    /\ Returned
    /\ ~ContextMarker(ex_text)
    /\ Cardinality(QualifyingPlaces(ex_text)) >= 2
    /\ ex_result = None

\* C3: a text whose candidates are all in the exclusion set yields nothing,
\* with or without a context marker.
C3_AllExcludedNoTicker ==
    (Returned /\ QualifyingPlaces(ex_text) = {}) => ex_result = None

\* The call returned nothing for a text with a marker and excluded candidates only.
C3_Witness ==
    /\ Returned
    /\ ContextMarker(ex_text)
    /\ CandidatePlaces(ex_text) # {}
    /\ QualifyingPlaces(ex_text) = {}
    /\ ex_result = None

\* C4: a text with no candidate at all, the empty text included, yields
\* nothing as a normal result, and no text makes the call end in an exception.
C4_NoCandidateNoError ==
    /\ (Returned /\ CandidatePlaces(ex_text) = {}) => ex_result = None
    /\ ex_result[1] # "Raise"

\* The call returned nothing for a text with a marker and uppercase letters,
\* none of them a candidate.
C4_Witness ==
    /\ Returned
    /\ CandidatePlaces(ex_text) = {}
    /\ ContextMarker(ex_text)
    /\ \E j \in 1..Len(ex_text) : ex_text[j] \in Upper
    /\ ex_result = None

(***************************************************************************)
(* Claims about main and display_stock_chart, under Spec.                  *)
(***************************************************************************)
Steps(step) == {i \in 1..Len(trace) : trace[i].step = step}

C6_NoTickerNoChart ==
    /\ \A i, j \in 1..Len(trace) :
          (trace[i].step = "extract" /\ trace[i].arg = None /\ trace[j].q = trace[i].q)
              => trace[j].step \notin {"chart", "fetch"}
    /\ potential_ticker_for_chart = None => pc # "display"

\* A query whose extraction yielded nothing, for a text with a context marker,
\* has been handled to its end.
C6_Witness ==
    /\ pc = "idle"
    /\ Len(seen) > 0
    /\ seen[Len(seen)] = <<AllExcludedResponse, None>>
    /\ trace[Len(trace)] = Event(qid, "done", <<>>)
    /\ trace[Len(trace) - 1] = Event(qid, "extract", None)

ChartRaised == chart_outcome \in {"fetch_raises", "render_raises"}

\* C7: when the price fetch or the rendering raises, display_stock_chart
\* catches it and reports it on the page; nothing leaves the chart step, and
\* the run ends as any other, the assistant's message recorded.
C7_ChartFailureContained ==
    /\ pc # "crashed"
    /\ ChartRaised =>
          /\ pc = "idle"
          /\ <<"error", potential_ticker_for_chart>> \in notices
          /\ trace[Len(trace)] = Event(qid, "done", <<>>)
          /\ messages[Len(messages)] = Message("assistant", full_response_content)

\* The price fetch raised for a ticker, and the run has ended.
C7_Witness ==
    /\ chart_outcome = "fetch_raises"
    /\ potential_ticker_for_chart = Some(<<"A","A","P","L">>)
    /\ pc = "idle"

\* C8: a query has the chart collaborator invoked at most once, and with
\* exactly the ticker find_ticker_in_response returned for its response.
C8_ChartOnceWithExtractedTicker ==
    /\ \A i, j \in Steps("chart") : trace[i].q = trace[j].q => i = j
    /\ \A i \in Steps("chart") :
          /\ trace[i].arg[1] = "Some"
          /\ \E j \in Steps("extract") :
                /\ j < i
                /\ trace[j].q = trace[i].q
                /\ trace[j].arg = trace[i].arg
                /\ seen[Cardinality({n \in Steps("extract") : n <= j})][2] = trace[i].arg

\* The chart was asked for NVDA, the ticker of a response that names the
\* excluded NEWS first.
C8_Witness ==
    /\ pc = "display"
    /\ full_response_content = NewsResponse
    /\ trace[Len(trace)] = Event(qid, "chart", Some(<<"N","V","D","A">>))

Rank(step) ==
    CASE step = "submit"  -> 0
      [] step = "agent"   -> 1
      [] step = "extract" -> 2
      [] step = "chart"   -> 3
      [] step = "fetch"   -> 4
      [] step = "done"    -> 5

VersionsReturned == v_pc = "done" /\ v_result # Pending

\* What the claim counts as an error: a missing requirements file, a missing
\* pip, a package pip cannot find, any other exception.
ClaimedErrors ==
    { <<"open", "file_not_found">>, <<"open", "exception">>,
      <<"pip", "file_not_found">>, <<"pip", "called_process_error">>,
      <<"pip", "exception">> }

\* The errors that end the call.
FatalErrors == ClaimedErrors \ {<<"pip", "called_process_error">>}

\* C10 as stated: whenever one of the claimed errors occurs, a package that
\* pip cannot find among them, the dictionary returned is empty.
C10_EmptyOnAnyError ==
    (VersionsReturned /\ v_events \cap ClaimedErrors # {}) => v_result = ReturnedDict(EmptyDict)

\* C10 as amended: the dictionary returned is empty whenever the requirements
\* file cannot be opened or read, pip is missing, or a lookup raises any
\* exception other than pip's non-zero exit; otherwise, packages that pip
\* cannot find being skipped, it is the dictionary of the versions collected.
C10_EmptyOnFatalError ==
    VersionsReturned =>
        IF v_events \cap FatalErrors # {} THEN v_result = ReturnedDict(EmptyDict)
        ELSE v_result = ReturnedDict(installed_versions)

\* pip went missing after a version had been collected, and the call
\* returned the empty dictionary.
C10_Witness ==
    /\ VersionsReturned
    /\ <<"pip", "file_not_found">> \in v_events
    /\ installed_versions # EmptyDict
    /\ v_result = ReturnedDict(EmptyDict)

(***************************************************************************)
(* Claims about the tokens find_ticker_in_response takes, under SpecTokens.*)
(***************************************************************************)
\* The uppercase letters from place i on, counted up to the first character
\* that is none.
RECURSIVE UpperRunLen(_, _)
UpperRunLen(text, i) ==
    IF i > Len(text) \/ text[i] \notin Upper THEN 0
    ELSE 1 + UpperRunLen(text, i + 1)

\* The maximal runs of uppercase letters of a text, <<start, length>> each.
UpperRuns(text) ==
    {<<i, UpperRunLen(text, i)>> :
        i \in {j \in 1..Len(text) :
                  text[j] \in Upper /\ (j = 1 \/ text[j - 1] \notin Upper)}}

\* The characters next to a run, on its left and on its right.
RunNeighbours(text, r) ==
    {text[j] : j \in {r[1] - 1, r[1] + r[2]} \cap (1..Len(text))}

IsLongRun(r) == r[2] >= 6

\* A lowercase letter, a digit or an underscore is next to the run.
IsAdjacentRun(text, r) ==
    RunNeighbours(text, r) \cap (Lower \cup Digit \cup {"_"}) # {}

\* The runs that are whole tokens: 1 to 5 letters, a word boundary on both sides.
WholeTokens(text) ==
    {r \in UpperRuns(text) : ~IsLongRun(r) /\ ~IsAdjacentRun(text, r)}

\* C11: a ticker that find_ticker_in_response returns is a whole token of the
\* text, 1 to 5 uppercase ASCII letters between two word boundaries, and is not
\* in the exclusion set; runs of six or more uppercase letters and runs next to
\* a lowercase letter, a digit or an underscore give no candidate: a text whose
\* runs are all of these kinds yields None, and what is returned is never cut
\* out of such a run.
C11_ReturnedIsWholeToken ==
    Returned =>
        LET whole == WholeTokens(ex_text)
        IN  /\ ex_result[1] \in {"Some", "None"}
            /\ ex_result[1] = "Some" =>
                  /\ Len(ex_result[2]) \in 1..5
                  /\ \A j \in 1..Len(ex_result[2]) : ex_result[2][j] \in Upper
                  /\ ex_result[2] \notin ExclusionSet
                  /\ \E r \in whole : TokenAt(ex_text, r) = ex_result[2]
            /\ whole = {} => ex_result = None

\* A ticker was returned from a text that also has a run of six letters and
\* short runs next to a lowercase letter, to a digit and to an underscore.
C11_Witness ==
    /\ Returned
    /\ ex_result[1] = "Some"
    /\ LET runs == UpperRuns(ex_text)
       IN  /\ \E r \in runs : IsLongRun(r) /\ ~IsAdjacentRun(ex_text, r)
           /\ \A kind \in {Lower, Digit, {"_"}} :
                 \E r \in runs :
                    ~IsLongRun(r) /\ RunNeighbours(ex_text, r) \cap kind # {}

(***************************************************************************)
(* Claims about the start of the application, under Spec.                  *)
(***************************************************************************)
\* GEMINI_API_KEY is not set, or is set to the empty str.
KeyAbsent == gemini_api_key = <<"None">> \/ gemini_api_key = <<"Some", <<>>>>

\* C12: when GEMINI_API_KEY is missing or empty at start-up, the application
\* stops before the agent team or the chart tool is initialized and before a
\* prompt is accepted: no prompt is ever handled, and there is never an agent
\* call, a ticker extraction or a chart.
C12_NoKeyNothingRuns ==
    KeyAbsent =>
        /\ pc \in {"start", "stopped"}
        /\ resources = {}
        /\ qid = 0
        /\ messages = <<>>
        /\ trace = <<>>
        /\ seen = <<>>
        /\ chart_outcome = "none"
        /\ \A n \in notices : n[1] = "error"

\* The key is the empty str, and the run was stopped with the error shown.
C12_Witness ==
    /\ gemini_api_key = <<"Some", <<>>>>
    /\ pc = "stopped"
    /\ <<"error", "GEMINI_API_KEY not found">> \in notices

(***************************************************************************)
(* Claims about the chat history, under SpecChat.                          *)
(***************************************************************************)
\* No prompt is being handled.
AtRest == pc \in {"start", "stopped", "idle", "fa_idle"}

\* User and assistant messages in turn, a user message first.
Alternates(history) ==
    \A i \in 1..Len(history) :
        history[i].role = IF i % 2 = 1 THEN "user" ELSE "assistant"

\* The assistant's messages of a history whose content is an error text: both
\* scripts' error texts hold "rror", no response of Responses does.
ErrorAnswers(history) ==
    {i \in 1..Len(history) :
        /\ history[i].role = "assistant"
        /\ Contains(history[i].content, <<"r","r","o","r">>)}

Apology ==
    <<"S","o","r","r","y",","," ","I"," ","e","n","c","o","u","n","t","e","r",
      "e","d"," ","a","n"," ","e","r","r","o","r"," ","p","r","o","c","e","s",
      "s","i","n","g"," ","y","o","u","r"," ","r","e","q","u","e","s","t",":",
      " ">>

IsErrorText(text) ==
    Len(text) >= Len(Apology) /\ SubSeq(text, 1, Len(Apology)) = Apology

\* The agent call of query q raised, or the content of its response could not
\* be taken.
Failed(q) ==
    \E i \in Steps("agent") :
        trace[i].q = q /\ trace[i].arg \in {<<"raised">>, <<"content_none">>}

\* C14: when the agent call or the taking of its response's content fails
\* while a prompt is handled, no ticker is extracted or used and the chart is
\* never called for that prompt; the assistant's message recorded for it is the
\* error text; and find_ticker_in_response is never applied to an error text.
C14_FailureNoExtractionNoChart ==
    /\ \A q \in 1..qid :
          Failed(q) =>
             \A i \in 1..Len(trace) :
                trace[i].q = q => trace[i].step \in {"submit", "agent", "done"}
    /\ (qid > 0 /\ Failed(qid)) =>
          /\ potential_ticker_for_chart = <<"None">>
          /\ chart_outcome = "none"
          /\ pc \in {"record", "chart", "idle"}
          /\ IsErrorText(full_response_content)
          /\ \A n \in notices :
                n[1] = "error" /\ full_response_content = Apology \o n[2]
          /\ (pc \in {"chart", "idle"} /\ messages # <<>>) =>
                messages[Len(messages)] =
                    [role |-> "assistant", content |-> full_response_content]
    /\ \A k \in 1..Len(seen) : ~IsErrorText(seen[k][1])

\* A prompt whose agent call raised has been handled to its end: the error
\* text is in the history, and that text, had it been handed to the extractor,
\* holds a marker and a candidate that is not excluded.
C14_Witness ==
    /\ pc = "idle"
    /\ qid > 0
    /\ Failed(qid)
    /\ messages # <<>>
    /\ IsErrorText(messages[Len(messages)].content)
    /\ ContextMarker(messages[Len(messages)].content)
    /\ QualifyingPlaces(messages[Len(messages)].content) # {}

====
